---- MODULE Spec2Model ----
(***************************************************************************)
(* A model of getData/ecos.py, the ECOS API client (class Ecos).           *)
(*                                                                         *)
(* Python strings whose characters the code inspects (period-coded times, *)
(* statistic names, dates) are sequences of one-character strings.  An     *)
(* outcome of a call is a record with a field k: "return" or "raise" for   *)
(* a call, "ts" or "NaT" for a pandas timestamp.                           *)
(*                                                                         *)
(* Each method of the class has its own specification: its Init draws the  *)
(* arguments (and, for the methods that use the network, the server's      *)
(* answers are drawn when a request is issued), its actions run the        *)
(* method.                                                                 *)
(***************************************************************************)
EXTENDS Integers, Sequences, FiniteSets, TLC

VARIABLES
    pc,      \* position of the running call
    arg,     \* the call's arguments
    ret,     \* the call's outcome
    net,     \* the GET requests issued so far, each with the server's answer
    loc,     \* the locals of the running method
    nsOnly   \* the installed pandas keeps nanosecond timestamps only (pandas < 2)

vars == <<pc, arg, ret, net, loc, nsOnly>>

NoRet == [k |-> "none"]
NoLoc == [k |-> "none"]

(***************************************************************************)
(* Strings                                                                 *)
(***************************************************************************)
Digits == {"0", "1", "2", "3", "4", "5", "6", "7", "8", "9"}

DigitVal(c) ==
    CASE c = "0" -> 0 [] c = "1" -> 1 [] c = "2" -> 2 [] c = "3" -> 3
      [] c = "4" -> 4 [] c = "5" -> 5 [] c = "6" -> 6 [] c = "7" -> 7
      [] c = "8" -> 8 [] c = "9" -> 9

\* int(s) of a string of decimal digits
RECURSIVE int(_)
int(s) ==
    IF s = <<>> THEN 0
    ELSE 10 * int(SubSeq(s, 1, Len(s) - 1)) + DigitVal(s[Len(s)])

IsDigits(s) == \A i \in DOMAIN s : s[i] \in Digits

\* s[a:b] of Python, 0-based and half-open, clipped to the string
Slice(s, a, b) == SubSeq(s, a + 1, IF b < Len(s) THEN b ELSE Len(s))

\* all sequences over S of length at most n
SeqsUpTo(S, n) == UNION {[1..k -> S] : k \in 0..n}

(***************************************************************************)
(* pandas.Timestamp(y, m, d)                                               *)
(***************************************************************************)
IsLeap(y) == (y % 4 = 0 /\ y % 100 # 0) \/ y % 400 = 0

DaysInMonth(y, m) ==
    IF m = 2 THEN (IF IsLeap(y) THEN 29 ELSE 28)
    ELSE IF m \in {4, 6, 9, 11} THEN 30 ELSE 31

Ts(y, m, d) == [k |-> "ts", y |-> y, m |-> m, d |-> d]
NaT == [k |-> "NaT"]
Raise(e) == [k |-> "raise", exc |-> e]
Return(v) == [k |-> "return", val |-> v]

\* datetime(y, m, d) accepts the date
DateExists(y, m, d) ==
    /\ y >= 1 /\ y <= 9999
    /\ m >= 1 /\ m <= 12
    /\ d >= 1 /\ d <= DaysInMonth(y, m)

\* the date lies in the span a nanosecond timestamp covers,
\* 1677-09-21 .. 2262-04-11
InNanoBounds(y, m, d) ==
    /\ (y > 1677 \/ (y = 1677 /\ (m > 9 \/ (m = 9 /\ d >= 22))))
    /\ (y < 2262 \/ (y = 2262 /\ (m < 4 \/ (m = 4 /\ d <= 11))))

\* The constructor builds a datetime first (ValueError for a date that does
\* not exist); a pandas that keeps nanoseconds only then refuses a date out
\* of its span.
Timestamp(y, m, d) ==
    IF ~DateExists(y, m, d) THEN Raise("ValueError")
    ELSE IF nsOnly /\ ~InNanoBounds(y, m, d) THEN Raise("OutOfBoundsDatetime")
    ELSE Ts(y, m, d)

(***************************************************************************)
(* Ecos.parseTime                                                          *)
(***************************************************************************)
None == <<>>   \* a group that took no part in the match

NoMatch == [ok |-> FALSE]

Groups(y, m, d, sm, q, s) ==
    [ok |-> TRUE, y |-> y, m |-> m, d |-> d, sm |-> sm, q |-> q, s |-> s]

\* "$" matches at the end of the string and before one final newline
StripFinalNewline(str) ==
    IF Len(str) > 0 /\ str[Len(str)] = "\n"
    THEN SubSeq(str, 1, Len(str) - 1)
    ELSE str

\* pattern.match(str): ^ y{4} ( m{2} ( d{2} | S[12] )? | Q[1-4] | S[12] )? $
PatternMatch(str) ==
    LET t == StripFinalNewline(str)
        n == Len(t)
        y == Slice(t, 0, 4)
    IN  IF n < 4 \/ ~IsDigits(y) THEN NoMatch
        ELSE IF n = 4 THEN Groups(y, None, None, None, None, None)
        ELSE IF n = 6 /\ IsDigits(Slice(t, 4, 6))
             THEN Groups(y, Slice(t, 4, 6), None, None, None, None)
        ELSE IF n = 6 /\ t[5] = "Q" /\ t[6] \in {"1", "2", "3", "4"}
             THEN Groups(y, None, None, None, <<t[6]>>, None)
        ELSE IF n = 6 /\ t[5] = "S" /\ t[6] \in {"1", "2"}
             THEN Groups(y, None, None, None, None, <<t[6]>>)
        ELSE IF n = 8 /\ IsDigits(Slice(t, 4, 8))
             THEN Groups(y, Slice(t, 4, 6), Slice(t, 6, 8), None, None, None)
        ELSE IF n = 8 /\ IsDigits(Slice(t, 4, 6)) /\ t[7] = "S" /\ t[8] \in {"1", "2"}
             THEN Groups(y, Slice(t, 4, 6), None, <<t[8]>>, None, None)
        ELSE NoMatch

QuarterMonthOff(q) == int(q) * 3 + 1
QuarterMonth(q) == (int(q) - 1) * 3 + 1

HalfMonth(s) == (int(s) - 1) * 6 + 1

HalfDay(sm) == IF sm = <<"1">> THEN 1 ELSE 16

parseTime(val) ==
    LET m == PatternMatch(val)
    IN  IF ~m.ok THEN NaT
        ELSE IF m.q # None THEN Timestamp(int(m.y), QuarterMonth(m.q), 1)
        ELSE IF m.s # None THEN Timestamp(int(m.y), HalfMonth(m.s), 1)
        ELSE IF m.sm # None THEN Timestamp(int(m.y), int(m.m), HalfDay(m.sm))
        ELSE IF m.d # None THEN Timestamp(int(m.y), int(m.m), int(m.d))
        ELSE IF m.m # None THEN Timestamp(int(m.y), int(m.m), 1)
        ELSE Timestamp(int(m.y), 1, 1)

(***************************************************************************)
(* Specification of parseTime: the argument is a year part, a body of at   *)
(* most as many characters as the pattern can take after the year, and a   *)
(* tail of further characters.                                             *)
(***************************************************************************)
MaxBody == 4
MaxTail == 1

YearParts ==
    { <<"2", "0", "2", "3">>, <<"2", "0", "2", "4">>, <<"0", "0", "0", "0">>,
      <<"1", "6", "0", "0">>, <<"2", "0", "Q", "1">> }
BodyChars == {"0", "1", "2", "3", "4", "Q", "S"}
TailChars == {"\n"}

InitParse ==
    /\ pc = "call"
    /\ arg \in [val : { y \o b \o t : y \in YearParts,
                                      b \in SeqsUpTo(BodyChars, MaxBody),
                                      t \in SeqsUpTo(TailChars, MaxTail) }
                      \cup SeqsUpTo({"2", "Q"}, 3)]
    /\ ret = NoRet
    /\ net = <<>>
    /\ loc = NoLoc
    /\ nsOnly \in BOOLEAN

ParseTimeCall ==
    /\ pc = "call"
    /\ ret' = parseTime(arg.val)
    /\ pc' = "done"
    /\ UNCHANGED <<arg, net, loc, nsOnly>>

NextParse == ParseTimeCall

SpecParse == InitParse /\ [][NextParse]_vars

(***************************************************************************)
(* C1, C2: parseTime                                                       *)
(***************************************************************************)
\* The six formats as the claim writes them: the period's first date, read
\* off a string of the right shape.
C1_Shape(v) ==
    IF ~(Len(v) \in {4, 6, 8} /\ IsDigits(SubSeq(v, 1, 4))) THEN "none"
    ELSE IF Len(v) = 4 THEN "YYYY"
    ELSE IF Len(v) = 6 /\ IsDigits(SubSeq(v, 5, 6)) THEN "YYYYMM"
    ELSE IF Len(v) = 6 /\ v[5] = "Q" /\ v[6] \in {"1", "2", "3", "4"} THEN "YYYYQn"
    ELSE IF Len(v) = 6 /\ v[5] = "S" /\ v[6] \in {"1", "2"} THEN "YYYYSn"
    ELSE IF Len(v) = 8 /\ IsDigits(SubSeq(v, 5, 8)) THEN "YYYYMMDD"
    ELSE IF Len(v) = 8 /\ IsDigits(SubSeq(v, 5, 6)) /\ v[7] = "S" /\ v[8] \in {"1", "2"}
         THEN "YYYYMMSn"
    ELSE "none"

C1_First(v) ==
    LET f == C1_Shape(v)
        Y == int(SubSeq(v, 1, 4))
    IN  CASE f = "YYYY"     -> <<Y, 1, 1>>
          [] f = "YYYYMM"   -> <<Y, int(SubSeq(v, 5, 6)), 1>>
          [] f = "YYYYMMDD" -> <<Y, int(SubSeq(v, 5, 6)), int(SubSeq(v, 7, 8))>>
          [] f = "YYYYQn"   -> <<Y, 3 * (DigitVal(v[6]) - 1) + 1, 1>>
          [] f = "YYYYSn"   -> <<Y, 6 * (DigitVal(v[6]) - 1) + 1, 1>>
          [] f = "YYYYMMSn" -> <<Y, int(SubSeq(v, 5, 6)), IF v[8] = "1" THEN 1 ELSE 16>>

\* a string of one of the six shapes that names a date of the calendar, one
\* the installed pandas can hold
C1_ValidInstance(v) ==
    /\ C1_Shape(v) # "none"
    /\ DateExists(C1_First(v)[1], C1_First(v)[2], C1_First(v)[3])
    /\ nsOnly => InNanoBounds(C1_First(v)[1], C1_First(v)[2], C1_First(v)[3])

\* C1: for every string that is a valid instance of one of the six formats,
\* parseTime returns the first calendar date of the encoded period.
C1_FirstOfPeriod ==
    (pc = "done" /\ C1_ValidInstance(arg.val)) =>
        ret = Ts(C1_First(arg.val)[1], C1_First(arg.val)[2], C1_First(arg.val)[3])

\* the second half of February 2024 parsed to the 16th
C1_Witness ==
    /\ pc = "done"
    /\ arg.val = <<"2", "0", "2", "4", "0", "2", "S", "2">>
    /\ ret = Ts(2024, 2, 16)

\* C2: parseTime never raises, and every string that is not a valid instance
\* of one of the six formats yields NaT.
C2_TotalNaT ==
    pc = "done" =>
        /\ ret.k \in {"ts", "NaT"}
        /\ ~C1_ValidInstance(arg.val) => ret = NaT

(***************************************************************************)
(* Ecos.getECOSData: the per-frequency formatting of the date bounds       *)
(***************************************************************************)
PeriodCodes == {"A", "Q", "M", "D", "S", "SM"}

period_map(per, d) ==
    CASE per = "A"  -> Slice(d, 0, 4)
      [] per = "Q"  -> Slice(d, 0, 4) \o <<"Q", "1">>
      [] per = "M"  -> Slice(d, 0, 6)
      [] per = "D"  -> d
      [] per = "S"  -> Slice(d, 0, 4) \o <<"S", "1">>
      [] per = "SM" -> Slice(d, 0, 6) \o <<"S", "1">>

DigitChar(n) ==
    CASE n = 0 -> "0" [] n = 1 -> "1" [] n = 2 -> "2" [] n = 3 -> "3"
      [] n = 4 -> "4" [] n = 5 -> "5" [] n = 6 -> "6" [] n = 7 -> "7"
      [] n = 8 -> "8" [] n = 9 -> "9"

\* the date y-m-d written YYYYMMDD
YYYYMMDD(y, m, d) ==
    << DigitChar(y \div 1000), DigitChar((y \div 100) % 10),
       DigitChar((y \div 10) % 10), DigitChar(y % 10),
       DigitChar(m \div 10), DigitChar(m % 10),
       DigitChar(d \div 10), DigitChar(d % 10) >>

FormatYears == {2023, 2024}
FormatMonths == {1, 2, 3, 4, 6, 7, 12}
FormatDays == {1, 15, 16, 29, 31}

FormatDates ==
    { <<y, m, d>> \in FormatYears \X FormatMonths \X FormatDays :
        DateExists(y, m, d) }

InitFormat ==
    /\ pc = "format"
    /\ arg \in [per : PeriodCodes \cup {"W"}, start : FormatDates, end : FormatDates]
    /\ ret = NoRet
    /\ net = <<>>
    /\ loc = NoLoc
    /\ nsOnly \in BOOLEAN

\* lines 287-291: the period is checked, then both bounds are formatted
FormatBounds ==
    /\ pc = "format"
    /\ IF arg.per \notin PeriodCodes
       THEN /\ ret' = Raise("ValueError")
            /\ pc' = "done"
            /\ loc' = loc
       ELSE /\ loc' = [start_var |-> period_map(arg.per, YYYYMMDD(arg.start[1], arg.start[2], arg.start[3])),
                       end_var   |-> period_map(arg.per, YYYYMMDD(arg.end[1], arg.end[2], arg.end[3]))]
            /\ pc' = "parse"
            /\ ret' = ret
    /\ UNCHANGED <<arg, net, nsOnly>>

\* the strings sent, read back by parseTime
ParseBounds ==
    /\ pc = "parse"
    /\ ret' = [k |-> "parsed", start |-> parseTime(loc.start_var), end |-> parseTime(loc.end_var)]
    /\ pc' = "done"
    /\ UNCHANGED <<arg, net, loc, nsOnly>>

NextFormat == FormatBounds \/ ParseBounds

SpecFormat == InitFormat /\ [][NextFormat]_vars

\* the first day of the period of frequency per that contains y-m-d
C10_PeriodStart(per, dt) ==
    LET y == dt[1]  m == dt[2]  d == dt[3]
    IN  CASE per = "A"  -> Ts(y, 1, 1)
          [] per = "Q"  -> Ts(y, 3 * ((m - 1) \div 3) + 1, 1)
          [] per = "M"  -> Ts(y, m, 1)
          [] per = "D"  -> Ts(y, m, d)
          [] per = "S"  -> Ts(y, 6 * ((m - 1) \div 6) + 1, 1)
          [] per = "SM" -> Ts(y, m, IF d < 16 THEN 1 ELSE 16)

\* C10: for every period code and valid date, the string sent for the start
\* bound and for the end bound parses to the first day of the period of that
\* frequency that contains the given date.
C10_RoundTrip ==
    (pc = "done" /\ ret.k = "parsed") =>
        /\ ret.start = C10_PeriodStart(arg.per, arg.start)
        /\ ret.end = C10_PeriodStart(arg.per, arg.end)

(***************************************************************************)
(* The server.  An answer to a GET is a failure of the connection or an    *)
(* HTTP response with a status and a body; a body is not JSON at all or a  *)
(* JSON object, with or without a RESULT member, which carries or lacks    *)
(* CODE and MESSAGE.                                                       *)
(***************************************************************************)
Absent == "<absent>"    \* a key the object does not have
PyNone == "<None>"      \* Python's None / JSON null

ConnError == [k |-> "conn_error"]
NotJson == [k |-> "notjson"]

NoResult == [present |-> FALSE]
ResultMembers ==
    {NoResult} \cup
    [present : {TRUE}, CODE : {Absent, "INFO-200", "INFO-100"}, MESSAGE : {Absent, "msg"}]

JsonBodies(Payloads) == [k : {"json"}, RESULT : ResultMembers, data : Payloads]

Statuses == {200, 404, 500}

Responses(Payloads) ==
    {ConnError} \cup
    [k : {"http"}, status : Statuses, body : {NotJson} \cup JsonBodies(Payloads)]

\* a well-formed answer carrying the payload
Ok(payload) ==
    [k |-> "http", status |-> 200,
     body |-> [k |-> "json", RESULT |-> NoResult, data |-> payload]]

(***************************************************************************)
(* Ecos.requestJson: the outcome of the call, given the server's answer    *)
(***************************************************************************)
requestJsonNoStatus(resp) ==
    IF resp.k = "conn_error" THEN Raise("ConnectionError")
    ELSE IF resp.body.k = "notjson" THEN Raise("JSONDecodeError")
    ELSE IF resp.body.RESULT.present /\ resp.body.RESULT.CODE = Absent
         THEN Raise("KeyError")
    ELSE IF resp.body.RESULT.present /\ resp.body.RESULT.CODE = "INFO-200"
         THEN (IF resp.body.RESULT.MESSAGE = Absent
               THEN Raise("KeyError") ELSE Raise("FileExistsError"))
    ELSE IF resp.status # 200 THEN Raise("ValueError")
    ELSE Return(resp.body)

requestJson(resp) ==
    IF resp.k = "conn_error" THEN Raise("ConnectionError")
    ELSE IF resp.status # 200 THEN Raise("ValueError")
    ELSE IF resp.body.k = "notjson" THEN Raise("JSONDecodeError")
    ELSE IF resp.body.RESULT.present /\ resp.body.RESULT.CODE = Absent
         THEN Raise("KeyError")
    ELSE IF resp.body.RESULT.present /\ resp.body.RESULT.CODE = "INFO-200"
         THEN (IF resp.body.RESULT.MESSAGE = Absent
               THEN Raise("KeyError") ELSE Raise("FileExistsError"))
    ELSE Return(resp.body)

Exchange(url, resp) == [url |-> url, resp |-> resp]

RequestUrls == {"url1", "url2"}
RequestPayloads == {"rows", "items"}

InitRequest ==
    /\ pc = "call"
    /\ arg \in [url : RequestUrls, print_val : BOOLEAN]
    /\ ret = NoRet
    /\ net = <<>>
    /\ loc = NoLoc
    /\ nsOnly = FALSE

RequestJsonCall ==
    /\ pc = "call"
    /\ \E resp \in Responses(RequestPayloads) :
        /\ net' = Append(net, Exchange(arg.url, resp))
        /\ ret' = requestJson(resp)
    /\ pc' = "done"
    /\ UNCHANGED <<arg, loc, nsOnly>>

NextRequest == RequestJsonCall

SpecRequest == InitRequest /\ [][NextRequest]_vars

StatisticSearchUrlSwapped(code1, code2, period, start_date, end_date) ==
    [api |-> "StatisticSearch",
     path |-> IF code2 = PyNone THEN <<code1, period, start_date, end_date>>
              ELSE <<code1, code2, period, start_date, end_date>>]

StatisticSearchUrl(code1, code2, period, start_date, end_date) ==
    [api |-> "StatisticSearch",
     path |-> IF code2 = PyNone THEN <<code1, period, start_date, end_date>>
              ELSE <<code1, period, start_date, end_date, code2>>]

\* lines 129-139: the URL of the call, for a list of one or two codes
generateUrl(code, period, start_date, end_date) ==
    IF Len(code) = 1
    THEN StatisticSearchUrl(code[1], PyNone, period, start_date, end_date)
    ELSE StatisticSearchUrl(code[1], code[2], period, start_date, end_date)

MaxCodes == 3
CodeValues == {"S1", "I1", PyNone}
SearchPayloads == {"rows"}

InitGenerate ==
    /\ pc = "call"
    /\ arg \in [code : SeqsUpTo(CodeValues, MaxCodes), period : {"M", "Q"},
                start_date : {"202301"}, end_date : {"202312", "2023Q4"}]
    /\ ret = NoRet
    /\ net = <<>>
    /\ loc = NoLoc
    /\ nsOnly = FALSE

GenerateECOSDataCall ==
    /\ pc = "call"
    /\ IF Len(arg.code) \notin {1, 2}
       THEN /\ ret' = Raise("Exception")
            /\ net' = net
       ELSE \E resp \in Responses(SearchPayloads) :
            /\ net' = Append(net, Exchange(generateUrl(arg.code, arg.period,
                                    arg.start_date, arg.end_date), resp))
            /\ ret' = requestJson(resp)
    /\ pc' = "done"
    /\ UNCHANGED <<arg, loc, nsOnly>>

NextGenerate == GenerateECOSDataCall

SpecGenerate == InitGenerate /\ [][NextGenerate]_vars

\* C8 as amended: generateECOSData raises its own Exception, issuing no
\* request, exactly when the number of codes is not one or two (none, or more
\* than two); for one or two codes it issues exactly one StatisticSearch
\* request whose URL carries the stat code, period, start and end in that
\* order, with the item code appended as the final segment if and only if two
\* codes were given and the second is not None; its outcome is then that of
\* requestJson, whose exceptions it lets through.
C8_Requests ==
    pc = "done" =>
        IF Len(arg.code) \notin {1, 2}
        THEN ret = Raise("Exception") /\ net = <<>>
        ELSE /\ Len(net) = 1
             /\ net[1].url.api = "StatisticSearch"
             /\ SubSeq(net[1].url.path, 1, 4) =
                    <<arg.code[1], arg.period, arg.start_date, arg.end_date>>
             /\ IF Len(arg.code) = 2 /\ arg.code[2] # PyNone
                THEN Len(net[1].url.path) = 5 /\ net[1].url.path[5] = arg.code[2]
                ELSE Len(net[1].url.path) = 4
             /\ ret # Raise("Exception")
             /\ ret.k = "raise" <=>
                    (net[1].resp.k = "conn_error" \/ net[1].resp.status # 200
                     \/ net[1].resp.body.k = "notjson"
                     \/ (net[1].resp.body.RESULT.present
                         /\ net[1].resp.body.RESULT.CODE \in {Absent, "INFO-200"}))

\* two codes, one request with the item code last
C8_Witness ==
    /\ pc = "done"
    /\ arg.code = <<"S1", "I1">>
    /\ Len(net) = 1
    /\ net[1].url.path = <<"S1", arg.period, arg.start_date, arg.end_date, "I1">>
    /\ ret.k = "return"

\* C8 as claimed: an exception exactly when more than two codes are
\* supplied, and then no request; for one or two codes exactly one request
\* with stat code, period, start, end in order and the item code last if and
\* only if two codes were given.
C8_AsClaimed ==
    pc = "done" =>
        /\ ret.k = "raise" <=> Len(arg.code) > 2
        /\ Len(arg.code) > 2 => net = <<>>
        /\ Len(arg.code) \in {1, 2} =>
            /\ Len(net) = 1
            /\ net[1].url.api = "StatisticSearch"
            /\ SubSeq(net[1].url.path, 1, 4) =
                    <<arg.code[1], arg.period, arg.start_date, arg.end_date>>
            /\ Len(net[1].url.path) = 5 <=> Len(arg.code) = 2

(***************************************************************************)
(* The StatisticTableList listing: a payload is a JSON object that carries *)
(* the member StatisticTableList with its rows, or does not carry it.      *)
(***************************************************************************)
NoPayload == [key |-> Absent]
Payload(key, rows) == [key |-> key, row |-> rows]

(***************************************************************************)
(* Ecos.getCode, Ecos.getCodes                                             *)
(***************************************************************************)
NoRequest == [k |-> "None"]
Request(per, codes) == [k |-> "req", per |-> per, codes |-> codes]

\* lines 325-328: the CYCLE of the last row of the listing that has one
RECURSIVE LastCycle(_)
LastCycle(rows) ==
    IF rows = <<>> THEN PyNone
    ELSE IF rows[Len(rows)].CYCLE # PyNone THEN rows[Len(rows)].CYCLE
    ELSE LastCycle(SubSeq(rows, 1, Len(rows) - 1))

\* lines 334-337
getCodeResult(code_dict, cycle_val, include_subcols) ==
    IF code_dict.ITEM_CODE # Absent
    THEN Return(Request(cycle_val, <<code_dict.STAT_CODE, code_dict.ITEM_CODE>>))
    ELSE IF include_subcols
         THEN Return(Request(cycle_val, <<code_dict.STAT_CODE>>))
         ELSE Return(NoRequest)

\* the outcome of getCode; resp is the server's answer to the listing
\* request, which is issued only for a row whose CYCLE is None
getCode(code_dict, include_subcols, resp) ==
    IF code_dict.CYCLE = PyNone
    THEN IF requestJson(resp).k = "raise" THEN requestJson(resp)
         ELSE IF resp.body.data.key # "StatisticTableList" THEN Raise("KeyError")
         ELSE IF LastCycle(resp.body.data.row) = PyNone THEN Raise("UnboundLocalError")
         ELSE getCodeResult(code_dict, LastCycle(resp.body.data.row), include_subcols)
    ELSE getCodeResult(code_dict, code_dict.CYCLE, include_subcols)

MaxMeta == 2
MetaRows ==
    [CYCLE : {"M", "Q", PyNone}, STAT_CODE : {"S1", "S2"}, ITEM_CODE : {Absent, "I1"}]

ListingRow(name, code, cycle) == [STAT_NAME |-> name, STAT_CODE |-> code, CYCLE |-> cycle]

CycleListings ==
    { NoPayload,
      Payload("StatisticTableList", <<>>),
      Payload("StatisticTableList", <<ListingRow("n1", "S1", PyNone)>>),
      Payload("StatisticTableList", <<ListingRow("n1", "S1", "A"), ListingRow("n2", "S2", PyNone)>>),
      Payload("StatisticTableList", <<ListingRow("n1", "S1", "M"), ListingRow("n2", "S2", "D")>>) }

TableListUrl == [api |-> "StatisticTableList", path |-> <<>>]

InitCodes ==
    /\ pc = "loop"
    /\ arg \in [codes_dict : SeqsUpTo(MetaRows, MaxMeta), include_subcols : BOOLEAN]
    /\ ret = NoRet
    /\ net = <<>>
    /\ loc = [i |-> 1, result |-> <<>>]
    /\ nsOnly = FALSE

\* one turn of the loop of getCodes (lines 358-361): getCode on the next row
GetCodesStep ==
    /\ pc = "loop"
    /\ loc.i <= Len(arg.codes_dict)
    /\ LET code_dict == arg.codes_dict[loc.i] IN
       \E resp \in IF code_dict.CYCLE = PyNone
                   THEN Responses(CycleListings) ELSE {ConnError} :
        LET req == getCode(code_dict, arg.include_subcols, resp) IN
        /\ net' = IF code_dict.CYCLE = PyNone
                  THEN Append(net, Exchange(TableListUrl, resp)) ELSE net
        /\ IF req.k = "raise"
           THEN /\ ret' = req
                /\ pc' = "done"
                /\ loc' = loc
           ELSE /\ loc' = [i |-> loc.i + 1,
                           result |-> IF req.val = NoRequest THEN loc.result
                                      ELSE Append(loc.result, req.val)]
                /\ UNCHANGED <<ret, pc>>
    /\ UNCHANGED <<arg, nsOnly>>

\* line 362
GetCodesReturn ==
    /\ pc = "loop"
    /\ loc.i > Len(arg.codes_dict)
    /\ ret' = Return(loc.result)
    /\ pc' = "done"
    /\ UNCHANGED <<arg, net, loc, nsOnly>>

NextCodes == GetCodesStep \/ GetCodesReturn

SpecCodes == InitCodes /\ [][NextCodes]_vars

\* the requests the claim expects of the rows: every row with
\* include_subcols, the rows without ITEM_CODE otherwise, each with its own
\* CYCLE
RECURSIVE C9_Expected(_, _)
C9_Expected(rows, include_subcols) ==
    IF rows = <<>> THEN <<>>
    ELSE LET r == rows[Len(rows)]
             rest == C9_Expected(SubSeq(rows, 1, Len(rows) - 1), include_subcols)
         IN  IF r.ITEM_CODE # Absent /\ ~include_subcols THEN rest
             ELSE Append(rest, Request(r.CYCLE,
                     IF r.ITEM_CODE # Absent THEN <<r.STAT_CODE, r.ITEM_CODE>>
                     ELSE <<r.STAT_CODE>>))

\* C9: getCodes returns, in order, one request for every row that is not
\* excluded, with the row's own CYCLE as period; with include_subcols every
\* row yields a request, without it exactly the rows carrying ITEM_CODE are
\* excluded.
C9_Codes ==
    (pc = "done" /\ ret.k = "return") =>
        ret.val = C9_Expected(arg.codes_dict, arg.include_subcols)

(***************************************************************************)
(* Ecos.processECOSData                                                    *)
(*                                                                         *)
(* A row of the StatisticSearch payload carries STAT_NAME, TIME and        *)
(* DATA_VALUE, and for each of ITEM_NAME1..4 a string, None, or nothing    *)
(* (the key is absent; the data frame then holds NaN there).  A table is   *)
(* its index (the parsed times, in row order), the name of the index, its  *)
(* set of columns and its cells; the order of the columns is not modelled. *)
(***************************************************************************)
NameAbsent == <<Absent>>
NameNone == <<PyNone>>
NaN == "NaN"

Whitespace == {" ", "\t", "\n"}

RECURSIVE lstrip(_)
lstrip(s) == IF s # <<>> /\ s[1] \in Whitespace THEN lstrip(Tail(s)) ELSE s

RECURSIVE rstrip(_)
rstrip(s) ==
    IF s # <<>> /\ s[Len(s)] \in Whitespace THEN rstrip(SubSeq(s, 1, Len(s) - 1)) ELSE s

strip(s) == lstrip(rstrip(s))

RECURSIVE DropWhile(_, _)
DropWhile(s, S) == IF s # <<>> /\ s[1] \in S THEN DropWhile(Tail(s), S) ELSE s

\* re.sub(r'^[\d\.]+\s*', '', name)
CleanStatName(name) ==
    IF name # <<>> /\ name[1] \in Digits \cup {"."}
    THEN DropWhile(DropWhile(name, Digits \cup {"."}), Whitespace)
    ELSE name

NumericStrings == {"1", "2"}

\* pd.to_numeric(v, errors="coerce")
to_numeric(v) == IF v \in NumericStrings THEN v ELSE NaN

notna(v) == v # NameAbsent /\ v # NameNone

\* astype(str) of a cell of an ITEM_NAME column
astype_str(v) ==
    IF v = NameNone THEN <<"N", "o", "n", "e">>
    ELSE IF v = NameAbsent THEN <<"n", "a", "n">>
    ELSE v

CategoryOrderReversed == <<"ITEM_NAME1", "ITEM_NAME2", "ITEM_NAME3", "ITEM_NAME4">>
CategoryOrder == <<"ITEM_NAME4", "ITEM_NAME3", "ITEM_NAME2", "ITEM_NAME1">>

\* col in df.columns and df[col].notna().any()
Populated(rows, col) == \E i \in DOMAIN rows : notna(rows[i][col])

\* lines 223-226: the position in CategoryOrder of the column chosen, 0 for
\* the else branch of the loop
NameColIndex(rows) ==
    IF \E j \in DOMAIN CategoryOrder : Populated(rows, CategoryOrder[j])
    THEN CHOOSE j \in DOMAIN CategoryOrder :
            /\ Populated(rows, CategoryOrder[j])
            /\ \A h \in 1..(j - 1) : ~Populated(rows, CategoryOrder[h])
    ELSE 0

TsLess(a, b) ==
    \/ a.y < b.y
    \/ a.y = b.y /\ a.m < b.m
    \/ a.y = b.y /\ a.m = b.m /\ a.d < b.d

\* the timestamps of S in ascending order
RECURSIVE SortTimes(_)
SortTimes(S) ==
    IF S = {} THEN <<>>
    ELSE LET least == CHOOSE t \in S : \A u \in S \ {t} : TsLess(t, u)
         IN  <<least>> \o SortTimes(S \ {least})

Table(index_name, index, cols, cell) ==
    [index_name |-> index_name, index |-> index, cols |-> cols, cell |-> cell]

\* pd.DataFrame()
EmptyTable == Table(PyNone, <<>>, {}, <<>>)

\* line 241
ColumnName(stat_name, c) == IF c = <<>> THEN stat_name ELSE stat_name \o <<"_">> \o c

\* lines 228-229: one row per row of the payload, in the payload's order
PlainTable(rows, stat_name) ==
    Table("TIME", [i \in DOMAIN rows |-> parseTime(rows[i].TIME)], {stat_name},
          [x \in (DOMAIN rows) \X {stat_name} |-> to_numeric(rows[x[1]].DATA_VALUE)])

\* aggfunc="first": the first value of the group that is not NaN
FirstValue(rows, G) ==
    LET ok == {i \in G : to_numeric(rows[i].DATA_VALUE) # NaN}
    IN  IF ok = {} THEN NaN
        ELSE to_numeric(rows[CHOOSE i \in ok : \A j \in ok : i <= j].DATA_VALUE)

\* lines 232-241: pivot_table groups the rows by (TIME, col), leaving out the
\* rows whose TIME is NaT, takes each group's first value, drops the groups
\* whose value is NaN, and lays the rest out by TIME (ascending) and col
PivotTable(rows, stat_name, name_col) ==
    LET cat(i) == strip(astype_str(rows[i][name_col]))
        time(i) == parseTime(rows[i].TIME)
        group(t, c) == {i \in DOMAIN rows : time(i) = t /\ cat(i) = c}
        kept == { <<time(i), cat(i)>> : i \in
                    {j \in DOMAIN rows :
                        /\ time(j) # NaT
                        /\ FirstValue(rows, group(time(j), cat(j))) # NaN} }
        index == SortTimes({g[1] : g \in kept})
        cats == {g[2] : g \in kept}
    IN  Table("TIME", index, {ColumnName(stat_name, c) : c \in cats},
              [x \in UNION {{<<i, ColumnName(stat_name, c)>> : c \in cats} : i \in DOMAIN index} |->
                 LET c == CHOOSE c \in cats : ColumnName(stat_name, c) = x[2]
                 IN  FirstValue(rows, group(index[x[1]], c))])

\* rows = data.get("StatisticSearch", {}).get("row", [])
SearchRows(data) == IF data.key = "StatisticSearch" THEN data.row ELSE <<>>

Processed(df, detail) == Return([df |-> df, detail |-> detail])

NoDetail == [k |-> "empty"]

processECOSData(data) ==
    LET rows == SearchRows(data) IN
    IF rows = <<>> THEN Processed(EmptyTable, NoDetail)
    ELSE IF \E i \in DOMAIN rows : parseTime(rows[i].TIME).k = "raise"
    THEN parseTime(rows[CHOOSE i \in DOMAIN rows :
                            /\ parseTime(rows[i].TIME).k = "raise"
                            /\ \A j \in 1..(i - 1) : parseTime(rows[j].TIME).k # "raise"].TIME)
    ELSE IF NameColIndex(rows) = 0
    THEN Processed(PlainTable(rows, CleanStatName(rows[1].STAT_NAME)), rows[1])
    ELSE Processed(PivotTable(rows, CleanStatName(rows[1].STAT_NAME),
                              CategoryOrder[NameColIndex(rows)]), rows[1])

(***************************************************************************)
(* Specification of processECOSData: payloads of at most MaxRows rows.     *)
(***************************************************************************)
MaxRows == 2

T2020 == <<"2", "0", "2", "0">>
T2021 == <<"2", "0", "2", "1">>
TBad == <<"x">>                               \* no period code: NaT
TMonth13 == <<"2", "0", "2", "0", "1", "3">>  \* the shape of a month, no month

TimesAndValues ==
    { <<T2021, "1">>, <<T2020, "1">>, <<T2020, "x">>, <<T2021, "2">>, <<TBad, "1">> }

Names(n4, n3, n2, n1) ==
    [ITEM_NAME4 |-> n4, ITEM_NAME3 |-> n3, ITEM_NAME2 |-> n2, ITEM_NAME1 |-> n1]

NameCombos ==
    { Names(NameAbsent, NameAbsent, NameAbsent, NameAbsent),
      Names(NameAbsent, NameAbsent, NameAbsent, <<"a">>),
      Names(NameAbsent, NameAbsent, NameAbsent, <<"a", " ">>),
      Names(NameAbsent, NameAbsent, NameAbsent, <<>>),
      Names(NameAbsent, NameAbsent, NameAbsent, NameNone),
      Names(NameAbsent, NameNone, <<"b">>, <<"a">>),
      Names(<<"c">>, NameAbsent, NameAbsent, <<"a">>) }

SearchRow(stat_name, time, value, names) ==
    [STAT_NAME |-> stat_name, TIME |-> time, DATA_VALUE |-> value,
     ITEM_NAME4 |-> names.ITEM_NAME4, ITEM_NAME3 |-> names.ITEM_NAME3,
     ITEM_NAME2 |-> names.ITEM_NAME2, ITEM_NAME1 |-> names.ITEM_NAME1]

\* the rows less their STAT_NAME
RowBodies ==
    { SearchRow(<<>>, tv[1], tv[2], n) : tv \in TimesAndValues, n \in NameCombos }
    \cup { SearchRow(<<>>, TMonth13, "1", Names(NameAbsent, NameAbsent, NameAbsent, NameAbsent)) }

FirstStatNames == { <<"1", ".", " ", "G">>, <<" ", "1", "G">> }
OtherStatName == <<"9", "Z">>

InitProcess ==
    /\ pc = "call"
    /\ arg \in [data : { Payload("StatisticSearch",
                            [i \in DOMAIN b |-> [b[i] EXCEPT !.STAT_NAME =
                                                    IF i = 1 THEN name ELSE OtherStatName]]) :
                          b \in SeqsUpTo(RowBodies, MaxRows), name \in FirstStatNames }
                       \cup {NoPayload}]
    /\ ret = NoRet
    /\ net = <<>>
    /\ loc = NoLoc
    /\ nsOnly = FALSE

ProcessECOSDataCall ==
    /\ pc = "call"
    /\ ret' = processECOSData(arg.data)
    /\ pc' = "done"
    /\ UNCHANGED <<arg, net, loc, nsOnly>>

NextProcess == ProcessECOSDataCall

SpecProcess == InitProcess /\ [][NextProcess]_vars

(***************************************************************************)
(* C3: processECOSData                                                     *)
(***************************************************************************)
C3_Rows == IF arg.data.key = "StatisticSearch" THEN arg.data.row ELSE <<>>

\* the category column: the first of ITEM_NAME4, 3, 2, 1 with a value that
\* is not null, "" when there is none
C3_CategoryColumn ==
    IF Populated(C3_Rows, "ITEM_NAME4") THEN "ITEM_NAME4"
    ELSE IF Populated(C3_Rows, "ITEM_NAME3") THEN "ITEM_NAME3"
    ELSE IF Populated(C3_Rows, "ITEM_NAME2") THEN "ITEM_NAME2"
    ELSE IF Populated(C3_Rows, "ITEM_NAME1") THEN "ITEM_NAME1"
    ELSE ""

C3_Stat == CleanStatName(C3_Rows[1].STAT_NAME)
C3_Time(i) == parseTime(C3_Rows[i].TIME)
C3_Category(i) == strip(astype_str(C3_Rows[i][C3_CategoryColumn]))
C3_Column(i) == ColumnName(C3_Stat, C3_Category(i))
C3_Numeric(i) == C3_Rows[i].DATA_VALUE \in NumericStrings
C3_SomeTimeRaises == \E i \in DOMAIN C3_Rows : C3_Time(i).k = "raise"

C3_Ascending(index) ==
    \A i, j \in DOMAIN index : i < j => TsLess(index[i], index[j])

\* the rows that reach the pivoted table: a real time and a numeric value
C3_Counted == {i \in DOMAIN C3_Rows : C3_Time(i) # NaT /\ C3_Numeric(i)}

\* C3 as amended: an empty row list gives an empty table and empty metadata.
\* Otherwise the call raises if some TIME has the shape of a period but
\* names no date (see C2); if not, it returns the first row as metadata and
\* a table named after <stat>, the first row's STAT_NAME less its leading
\* run of digits and dots and the whitespace after that run.  With a
\* category column (the first of ITEM_NAME4, 3, 2, 1 that has a non-null
\* value) the table has one row per distinct parsed TIME, ascending, and one
\* column '<stat>_<c>' ('<stat>' for empty c) per distinct stripped value c
\* (a null reads 'None' or 'nan'), counting only the rows whose TIME is not
\* NaT and whose DATA_VALUE is numeric; a cell holds the first such value of
\* its time and category.  With no category column the table has the single
\* column '<stat>' and one row per row of the payload, in the payload's
\* order, neither sorted nor merged.
C3_Pivot ==
    pc = "done" =>
        IF C3_Rows = <<>> THEN ret = Processed(EmptyTable, NoDetail)
        ELSE IF C3_SomeTimeRaises THEN ret.k = "raise"
        ELSE /\ ret.k = "return"
             /\ ret.val.detail = C3_Rows[1]
             /\ LET df == ret.val.df IN
                IF C3_CategoryColumn = ""
                THEN /\ df.cols = {C3_Stat}
                     /\ DOMAIN df.index = DOMAIN C3_Rows
                     /\ \A i \in DOMAIN C3_Rows :
                            /\ df.index[i] = C3_Time(i)
                            /\ df.cell[<<i, C3_Stat>>] = to_numeric(C3_Rows[i].DATA_VALUE)
                ELSE /\ C3_Ascending(df.index)
                     /\ {df.index[p] : p \in DOMAIN df.index} = {C3_Time(i) : i \in C3_Counted}
                     /\ df.cols = {C3_Column(i) : i \in C3_Counted}
                     /\ DOMAIN df.cell = (DOMAIN df.index) \X df.cols
                     /\ \A p \in DOMAIN df.index : \A c \in df.cols :
                            LET same == {i \in C3_Counted :
                                            C3_Time(i) = df.index[p] /\ C3_Column(i) = c}
                            IN  IF same = {} THEN df.cell[<<p, c>>] = NaN
                                ELSE \E i \in same :
                                        /\ \A j \in same : i <= j
                                        /\ df.cell[<<p, c>>] = C3_Rows[i].DATA_VALUE

\* two rows of one category column pivoted into two times and two columns
C3_Witness ==
    /\ pc = "done"
    /\ ret.k = "return"
    /\ C3_CategoryColumn = "ITEM_NAME2"
    /\ Len(ret.val.df.index) = 2
    /\ Cardinality(ret.val.df.cols) = 2

\* C3 as claimed, for payloads whose TIMEs all parse to dates and whose
\* values are all numeric: one row per distinct parsed TIME, ascending; with a
\* category column exactly one column per distinct stripped value of it,
\* without one the single column <stat>.
C3_AsClaimed ==
    (/\ pc = "done"
     /\ C3_Rows # <<>>
     /\ \A i \in DOMAIN C3_Rows : C3_Time(i).k = "ts" /\ C3_Numeric(i)) =>
        /\ ret.k = "return"
        /\ C3_Ascending(ret.val.df.index)
        /\ {ret.val.df.index[p] : p \in DOMAIN ret.val.df.index} =
                {C3_Time(i) : i \in DOMAIN C3_Rows}
        /\ ret.val.df.cols =
                IF C3_CategoryColumn = "" THEN {C3_Stat}
                ELSE {C3_Column(i) : i \in DOMAIN C3_Rows}

(***************************************************************************)
(* Ecos.getECOSData                                                        *)
(*                                                                         *)
(* The frame the call returns is its first column's name, the index that   *)
(* column holds, the set of its data columns, each the pair of the         *)
(* position in dfs of the table it comes from and its name there, and its  *)
(* cells.                                                                  *)
(***************************************************************************)
IsEmptyTable(t) == t.index = <<>> /\ t.cols = {}

HasDuplicates(index) == \E i, j \in DOMAIN index : i # j /\ index[i] = index[j]

SeqElems(q) == {q[i] : i \in DOMAIN q}

\* the elements of q that are not in S, in q's order, each once
RECURSIVE NewElems(_, _)
NewElems(q, S) ==
    IF q = <<>> THEN <<>>
    ELSE IF q[1] \in S THEN NewElems(Tail(q), S)
    ELSE <<q[1]>> \o NewElems(Tail(q), S \cup {q[1]})

\* the union of the indexes of the tables K of dfs, in order of appearance
RECURSIVE UnionIndex(_, _, _)
UnionIndex(dfs, K, acc) ==
    IF K = {} THEN acc
    ELSE LET k == CHOOSE k \in K : \A h \in K : k <= h
         IN  UnionIndex(dfs, K \ {k}, acc \o NewElems(dfs[k].index, SeqElems(acc)))

\* concat drops the tables with neither rows nor columns when others remain
Concatenated(dfs) ==
    IF \E k \in DOMAIN dfs : ~IsEmptyTable(dfs[k])
    THEN {k \in DOMAIN dfs : ~IsEmptyTable(dfs[k])}
    ELSE DOMAIN dfs

Frame(first_col, index, cols, cell) ==
    [first_col |-> first_col, index |-> index, cols |-> cols, cell |-> cell]

\* line 301: pd.concat(dfs, axis=1).reset_index().rename(columns={"TIME":"date"})
concat_reset_rename(dfs) ==
    LET K == Concatenated(dfs)
        same == \A a, b \in K : dfs[a].index = dfs[b].index
        first == CHOOSE k \in K : \A h \in K : k <= h
        index == IF same THEN dfs[first].index ELSE UnionIndex(dfs, K, <<>>)
        index_name == IF \A k \in K : dfs[k].index_name = "TIME" THEN "TIME" ELSE PyNone
        cols == UNION {{<<k, c>> : c \in dfs[k].cols} : k \in K}
        pos(k, t) == CHOOSE q \in DOMAIN dfs[k].index : dfs[k].index[q] = t
    IN  IF dfs = <<>> THEN Raise("ValueError")
        ELSE IF ~same /\ \E k \in K : HasDuplicates(dfs[k].index)
        THEN Raise("InvalidIndexError")
        ELSE Return(Frame(IF index_name = "TIME" THEN "date" ELSE "index", index, cols,
                [x \in (DOMAIN index) \X cols |->
                    LET k == x[2][1]
                        c == x[2][2]
                    IN  IF same THEN dfs[k].cell[<<x[1], c>>]
                        ELSE IF index[x[1]] \in SeqElems(dfs[k].index)
                        THEN dfs[k].cell[<<pos(k, index[x[1]]), c>>]
                        ELSE NaN]))

\* details[key] = detail
SetItem(d, key, v) == [x \in DOMAIN d \cup {key} |-> IF x = key THEN v ELSE d[x]]

\* lines 294-295: the try block up to the processed data, given the answer
\* to the request generateECOSData issues (none is issued for a code list
\* that is not of one or two codes)
FetchAndProcess(code_data, resp) ==
    IF Len(code_data) \notin {1, 2} THEN Raise("Exception")
    ELSE IF requestJson(resp).k = "raise" THEN requestJson(resp)
    ELSE processECOSData(resp.body.data)

MaxRequests == 2

StartDate == <<"2", "0", "2", "0", "0", "1", "0", "1">>
EndDate == <<"2", "0", "2", "1", "1", "2", "3", "1">>

BatchRequests ==
    { <<"A", <<"S1">>>>, <<"A", <<"S1", "I1">>>>, <<"A", <<"S2">>>>,
      <<"W", <<"S1">>>>, <<"Q", <<>>>> }

PlainNames == Names(NameAbsent, NameAbsent, NameAbsent, NameAbsent)

BatchPayloads ==
    { NoPayload,
      Payload("StatisticSearch",
              << SearchRow(<<"G">>, T2020, "1", Names(NameAbsent, NameAbsent, NameAbsent, <<"a">>)),
                 SearchRow(<<"G">>, T2021, "2", Names(NameAbsent, NameAbsent, NameAbsent, <<"a">>)) >>),
      Payload("StatisticSearch", << SearchRow(<<"H">>, T2021, "1", PlainNames) >>),
      Payload("StatisticSearch",
              << SearchRow(<<"H">>, T2021, "1", PlainNames),
                 SearchRow(<<"H">>, T2021, "2", PlainNames) >>),
      Payload("StatisticSearch", << SearchRow(<<"H">>, TMonth13, "1", PlainNames) >>) }

BatchResponses ==
    { ConnError,
      [k |-> "http", status |-> 500, body |-> NotJson],
      [k |-> "http", status |-> 200,
       body |-> [k |-> "json", data |-> NoPayload,
                 RESULT |-> [present |-> TRUE, CODE |-> "INFO-200", MESSAGE |-> "msg"]]] }
    \cup { Ok(p) : p \in BatchPayloads }

InitBatch ==
    /\ pc = "loop"
    /\ arg \in [codes : SeqsUpTo(BatchRequests, MaxRequests),
                start_date : {StartDate}, end_date : {EndDate},
                return_detail : BOOLEAN]
    /\ ret = NoRet
    /\ net = <<>>
    /\ loc = [i |-> 1, dfs |-> <<>>, details |-> <<>>, ok |-> {}, printed |-> <<>>]
    /\ nsOnly = FALSE

\* one turn of the loop (lines 284-299).  loc.ok keeps the turns whose try
\* block ran to its end, loc.printed the failures reported.
GetECOSDataStep ==
    /\ pc = "loop"
    /\ loc.i <= Len(arg.codes)
    /\ LET per == arg.codes[loc.i][1]
           code_data == arg.codes[loc.i][2]
       IN  IF per \notin PeriodCodes
           THEN /\ ret' = Raise("ValueError")
                /\ pc' = "done"
                /\ UNCHANGED <<net, loc>>
           ELSE LET start_var == period_map(per, arg.start_date)
                    end_var == period_map(per, arg.end_date)
                    asks == Len(code_data) \in {1, 2}
                IN  \E resp \in IF asks THEN BatchResponses ELSE {ConnError} :
                    LET out == FetchAndProcess(code_data, resp) IN
                    /\ net' = IF asks
                              THEN Append(net, Exchange(generateUrl(code_data, per,
                                                            start_var, end_var), resp))
                              ELSE net
                    /\ loc' = IF out.k = "raise"
                              THEN [loc EXCEPT !.i = @ + 1,
                                               !.printed = Append(@, loc.i)]
                              ELSE [loc EXCEPT !.i = @ + 1,
                                               !.dfs = Append(@, out.val.df),
                                               !.details = SetItem(@, code_data[1], out.val.detail),
                                               !.ok = @ \cup {loc.i}]
                    /\ UNCHANGED <<ret, pc>>
    /\ UNCHANGED <<arg, nsOnly>>

\* lines 301-303
GetECOSDataReturn ==
    /\ pc = "loop"
    /\ loc.i > Len(arg.codes)
    /\ LET df == concat_reset_rename(loc.dfs) IN
       ret' = IF df.k = "raise" THEN df
              ELSE IF arg.return_detail
                   THEN Return([df |-> df.val, details |-> loc.details])
                   ELSE Return([df |-> df.val])
    /\ pc' = "done"
    /\ UNCHANGED <<arg, net, loc, nsOnly>>

NextBatch == GetECOSDataStep \/ GetECOSDataReturn

SpecBatch == InitBatch /\ [][NextBatch]_vars

(***************************************************************************)
(* C5, C6: getECOSData                                                     *)
(***************************************************************************)
C5_ValidPeriods == \A i \in DOMAIN arg.codes : arg.codes[i][1] \in PeriodCodes

\* the turns that issue a request, in list order
C5_Asking == SelectSeq(arg.codes, LAMBDA c : Len(c[2]) \in {1, 2})

\* C5: for a list of requests whose period codes are all valid and every pattern of
\* failures, each request is attempted once, in list order, no exception
\* escapes the call, and the table and the details returned hold exactly the
\* results of the requests that succeeded.
C5_NoEscape ==
    (pc = "done" /\ arg.codes # <<>> /\ C5_ValidPeriods) =>
        /\ ret.k = "return"
        /\ Len(net) = Len(C5_Asking)
        /\ \A n \in DOMAIN net : net[n].url.path[1] = C5_Asking[n][2][1]
        /\ Len(loc.dfs) = Cardinality(loc.ok)
        /\ arg.return_detail =>
                DOMAIN ret.val.details = {arg.codes[i][2][1] : i \in loc.ok}

\* the timestamps of the tables of the requests that succeeded
C6_Times == UNION {SeqElems(loc.dfs[k].index) : k \in DOMAIN loc.dfs}

\* C6: the table returned has a 'date' column with exactly one row per
\* distinct timestamp of the tables processed, and every column of every
\* such table, each value on the row of its own timestamp and missing where
\* the table has no row for the date; also when tables have no rows.  (Stated
\* for tables none of which repeats a timestamp.)
C6_Aligned ==
    (/\ pc = "done"
     /\ ret.k = "return"
     /\ \A k \in DOMAIN loc.dfs : ~HasDuplicates(loc.dfs[k].index)) =>
        LET df == ret.val.df IN
        /\ df.first_col = "date"
        /\ ~HasDuplicates(df.index)
        /\ SeqElems(df.index) = C6_Times
        /\ \A k \in DOMAIN loc.dfs : \A c \in loc.dfs[k].cols :
            /\ <<k, c>> \in df.cols
            /\ \A p \in DOMAIN df.index :
                IF \E q \in DOMAIN loc.dfs[k].index : loc.dfs[k].index[q] = df.index[p]
                THEN \E q \in DOMAIN loc.dfs[k].index :
                        /\ loc.dfs[k].index[q] = df.index[p]
                        /\ df.cell[<<p, <<k, c>>>>] = loc.dfs[k].cell[<<q, c>>]
                ELSE df.cell[<<p, <<k, c>>>>] = NaN

(***************************************************************************)
(* Ecos.getStatDetail                                                      *)
(***************************************************************************)
\* keyword in name
Contains(keyword, name) ==
    \E i \in 1..(Len(name) + 1) :
        /\ i + Len(keyword) - 1 <= Len(name)
        /\ SubSeq(name, i, i + Len(keyword) - 1) = keyword

\* lines 72-75: the names of candidate_dict in the order of their first row ...
CandidateNames(rows, keyword) ==
    NewElems([i \in DOMAIN rows |-> rows[i].STAT_NAME],
             {rows[i].STAT_NAME : i \in {j \in DOMAIN rows : ~Contains(keyword, rows[j].STAT_NAME)}})

\* ... and the row each name maps to, the last of that name
CandidateRow(rows, name) ==
    rows[CHOOSE i \in DOMAIN rows :
            /\ rows[i].STAT_NAME = name
            /\ \A j \in DOMAIN rows : rows[j].STAT_NAME = name => j <= i]

\* f"{name} - {line['ITEM_NAME']}"
ItemKey(name, item_name) == name \o <<" ", "-", " ">> \o item_name

\* the item passes "if sub_col: if line[sub_col] == col_val"
PassesFilter(line, sub_col, col_val) == sub_col = PyNone \/ line[sub_col] = col_val

\* reading the item raises KeyError
ScanFails(line, sub_col, col_val) ==
    \/ sub_col # PyNone /\ line[sub_col] = Absent
    \/ PassesFilter(line, sub_col, col_val) /\ line.ITEM_NAME = <<Absent>>

\* lines 85-94: the entries written before the loop ends or an item raises
RECURSIVE ScanItemsThrough(_, _, _, _, _)
ScanItemsThrough(lines, name, sub_col, col_val, result) ==
    IF lines = <<>> THEN result
    ELSE IF ScanFails(lines[1], sub_col, col_val)
    THEN ScanItemsThrough(Tail(lines), name, sub_col, col_val, result)
    ELSE ScanItemsThrough(Tail(lines), name, sub_col, col_val,
            IF PassesFilter(lines[1], sub_col, col_val)
            THEN SetItem(result, ItemKey(name, lines[1].ITEM_NAME), lines[1])
            ELSE result)

RECURSIVE ScanItems(_, _, _, _, _)
ScanItems(lines, name, sub_col, col_val, result) ==
    IF lines = <<>> THEN result
    ELSE IF ScanFails(lines[1], sub_col, col_val) THEN result
    ELSE ScanItems(Tail(lines), name, sub_col, col_val,
            IF PassesFilter(lines[1], sub_col, col_val)
            THEN SetItem(result, ItemKey(name, lines[1].ITEM_NAME), lines[1])
            ELSE result)

\* lines 80-96: the try block; any exception leaves what was written
TryItems(resp, name, sub_col, col_val, result) ==
    IF requestJson(resp).k = "raise" THEN result
    ELSE IF resp.body.data.key # "StatisticItemList" THEN result
    ELSE ScanItems(resp.body.data.row, name, sub_col, col_val, result)

ItemListUrl(stat_code) == [api |-> "StatisticItemList", path |-> <<stat_code>>]

MaxStats == 2

NameG == <<"G">>
NameGx == <<"G", " ", "-", " ", "x">>
NameC == <<"C">>

ListingRows ==
    { ListingRow(NameG, "S1", "M"), ListingRow(NameGx, "S2", "M"),
      ListingRow(NameC, "S3", "Q"), ListingRow(NameG, "S4", "Q") }

ListingResponses ==
    { ConnError, Ok(NoPayload) }
    \cup { Ok(Payload("StatisticTableList", rows)) : rows \in SeqsUpTo(ListingRows, MaxStats) }

Item(item_name, cycle) == [ITEM_NAME |-> item_name, CYCLE |-> cycle]

ItemLists ==
    { <<>>,
      << Item(<<"x">>, "M"), Item(<<"y">>, "Q") >>,
      << Item(<<"x">>, "M"), Item(<<"z">>, Absent), Item(<<"y">>, "M") >>,
      << Item(<<Absent>>, "Q"), Item(<<"y">>, "M") >> }

ItemResponses ==
    { ConnError, Ok(NoPayload) }
    \cup { Ok(Payload("StatisticItemList", lines)) : lines \in ItemLists }

InitDetail ==
    /\ pc = "list"
    /\ arg \in [keyword : {NameG, NameC, <<>>}, sub_col : {PyNone, "CYCLE"}, col_val : {"M"}]
    /\ ret = NoRet
    /\ net = <<>>
    /\ loc = NoLoc
    /\ nsOnly = FALSE

\* lines 69-77
GetStatDetailList ==
    /\ pc = "list"
    /\ \E resp \in ListingResponses :
        /\ net' = Append(net, Exchange(TableListUrl, resp))
        /\ IF requestJson(resp).k = "raise"
           THEN ret' = requestJson(resp) /\ pc' = "done" /\ loc' = loc
           ELSE IF resp.body.data.key # "StatisticTableList"
           THEN ret' = Raise("KeyError") /\ pc' = "done" /\ loc' = loc
           ELSE /\ loc' = [rows |-> resp.body.data.row,
                           names |-> CandidateNames(resp.body.data.row, arg.keyword),
                           i |-> 1, result |-> <<>>]
                /\ pc' = "items"
                /\ ret' = ret
    /\ UNCHANGED <<arg, nsOnly>>

\* one turn of the loop over candidate_dict (lines 78-100)
GetStatDetailItems ==
    /\ pc = "items"
    /\ loc.i <= Len(loc.names)
    /\ LET name == loc.names[loc.i]
           val == CandidateRow(loc.rows, name)
       IN  \E resp \in ItemResponses :
            /\ net' = Append(net, Exchange(ItemListUrl(val.STAT_CODE), resp))
            /\ loc' = [loc EXCEPT
                        !.i = @ + 1,
                        !.result = SetItem(TryItems(resp, name, arg.sub_col, arg.col_val, @),
                                           name, val)]
    /\ UNCHANGED <<arg, ret, pc, nsOnly>>

\* line 102
GetStatDetailReturn ==
    /\ pc = "items"
    /\ loc.i > Len(loc.names)
    /\ ret' = Return(loc.result)
    /\ pc' = "done"
    /\ UNCHANGED <<arg, net, loc, nsOnly>>

NextDetail == GetStatDetailList \/ GetStatDetailItems \/ GetStatDetailReturn

SpecDetail == InitDetail /\ [][NextDetail]_vars

(***************************************************************************)
(* C7: getStatDetail                                                       *)
(***************************************************************************)
\* the call got its listing and ran its loop to the end
C7_Listed == pc = "done" /\ Len(net) >= 1 /\ requestJson(net[1].resp).k = "return"
                /\ net[1].resp.body.data.key = "StatisticTableList"

C7_Rows == net[1].resp.body.data.row

C7_Matching == {C7_Rows[i].STAT_NAME : i \in {j \in DOMAIN C7_Rows :
                                                Contains(arg.keyword, C7_Rows[j].STAT_NAME)}}

\* the answer to the item request of the i-th statistic scanned
C7_Answer(i) == net[i + 1].resp

C7_Succeeded(i) ==
    /\ C7_Answer(i).k = "http"
    /\ C7_Answer(i).status = 200
    /\ C7_Answer(i).body.k = "json"
    /\ C7_Answer(i).body.data.key = "StatisticItemList"

C7_Lines(i) == IF C7_Succeeded(i) THEN C7_Answer(i).body.data.row ELSE <<>>

C7_Selected(line) == arg.sub_col = PyNone \/ line[arg.sub_col] = arg.col_val

\* reading the item fails: it lacks the field filtered on, or is selected
\* and lacks ITEM_NAME
C7_Unreadable(line) ==
    \/ arg.sub_col # PyNone /\ line[arg.sub_col] = Absent
    \/ C7_Selected(line) /\ line.ITEM_NAME = <<Absent>>

\* the items entered: selected, and no item up to them unreadable
C7_Entered(i) ==
    {q \in DOMAIN C7_Lines(i) :
        /\ C7_Selected(C7_Lines(i)[q])
        /\ \A h \in 1..q : ~C7_Unreadable(C7_Lines(i)[h])}

C7_Key(i, q) == loc.names[i] \o <<" ", "-", " ">> \o C7_Lines(i)[q].ITEM_NAME

C7_EnteredKeys(i) == {C7_Key(i, q) : q \in C7_Entered(i)}

\* C7 as amended: once the listing is read the call returns, after one item
\* request per matching statistic.  The result has a key for every statistic
\* of the listing whose name contains keyword and for none whose name does
\* not, whether or not the item requests fail; such a key maps to the last
\* listing row of that name unless a statistic scanned later enters an item
\* under the same key.  An item entry '<name> - <ITEM_NAME>' is present
\* exactly when the item request for <name> succeeded, no item up to and
\* including it failed to be read (lacking the sub_col field, or ITEM_NAME),
\* and sub_col is not given or the item's sub_col field equals col_val.
C7_Entries ==
    C7_Listed =>
        /\ ret.k = "return"
        /\ Len(net) = 1 + Len(loc.names)
        /\ SeqElems(loc.names) = C7_Matching
        /\ DOMAIN ret.val = C7_Matching \cup UNION {C7_EnteredKeys(i) : i \in DOMAIN loc.names}
        /\ \A i \in DOMAIN C7_Rows :
                ~Contains(arg.keyword, C7_Rows[i].STAT_NAME) =>
                    C7_Rows[i].STAT_NAME \notin DOMAIN ret.val
        /\ \A i \in DOMAIN loc.names :
                (\A h \in (i + 1)..Len(loc.names) : loc.names[i] \notin C7_EnteredKeys(h)) =>
                    \E r \in DOMAIN C7_Rows :
                        /\ C7_Rows[r].STAT_NAME = loc.names[i]
                        /\ \A u \in (r + 1)..Len(C7_Rows) : C7_Rows[u].STAT_NAME # loc.names[i]
                        /\ ret.val[loc.names[i]] = C7_Rows[r]

\* an item that would be selected is missing because an item before it
\* could not be read
C7_Witness ==
    /\ C7_Listed
    /\ arg.sub_col = "CYCLE"
    /\ \E i \in DOMAIN loc.names :
        /\ C7_Succeeded(i)
        /\ Len(C7_Lines(i)) = 3
        /\ ItemKey(loc.names[i], <<"x">>) \in DOMAIN ret.val
        /\ ItemKey(loc.names[i], <<"y">>) \notin DOMAIN ret.val

\* C7 as claimed (for listings in which no statistic has the name of an
\* item entry): a key for every statistic whose name contains keyword,
\* mapped to a listing row of that name, none for the others, and an item
\* entry exactly when the item request succeeded and sub_col is not given or
\* the item's sub_col field equals col_val.
C7_AsClaimed ==
    (C7_Listed /\ \A i \in DOMAIN C7_Rows : C7_Rows[i].STAT_NAME # NameGx) =>
        /\ ret.k = "return"
        /\ DOMAIN ret.val =
                C7_Matching \cup
                UNION {{C7_Key(i, q) : q \in {u \in DOMAIN C7_Lines(i) :
                                                /\ C7_Selected(C7_Lines(i)[u])
                                                /\ C7_Lines(i)[u].ITEM_NAME # <<Absent>>}} :
                        i \in DOMAIN loc.names}
        /\ \A n \in C7_Matching :
                \E r \in DOMAIN C7_Rows : C7_Rows[r].STAT_NAME = n /\ ret.val[n] = C7_Rows[r]

====
